---- MODULE Spec2Model ----
(***************************************************************************)
(* CloudWatch response parsing: parseResponse (merge of the paginated      *)
(* GetMetricData outputs), parseGetMetricDataTimeSeries (frames, tags,     *)
(* gap filling) and formatAlias, of pkg/tsdb/cloudwatch/response_parser.go.*)
(*                                                                         *)
(* A Go string is a sequence of symbols (TLA+ strings that stand for a     *)
(* character or an indivisible word); "" is << >>.  A time.Time is a       *)
(* number of ticks, TicksPerSec ticks to the second.                       *)
(***************************************************************************)
EXTENDS Integers, Sequences, FiniteSets, TLC

VARIABLES
    queries,    \* map id -> *cloudWatchQuery (RequestExceededMaxLimit is written by the merge)
    batches,    \* metricDataOutputs: the objects the caller passed, as they are now
    input,      \* metricDataOutputs as they were when parseResponse was called
    mdr,        \* parseResponse's local map (id, label) -> pointer into batches
    responses,  \* the returned []*cloudwatchResponse
    err,        \* the returned error
    rerun,      \* outcome of a second call on a permutation of the same batches
    pc          \* "start", "done" (returned), "panic" (nil dereference), "rerun"

vars == <<queries, batches, input, mdr, responses, err, rerun, pc>>

----------------------------------------------------------------------------
(* Bounds of the model *)

MaxResults == 3      \* MetricDataResults of one call, over all its outputs
MaxPoints == 3       \* timestamps / values of one result in the gap filling inputs
MaxTick == 8         \* largest timestamp, in ticks
TicksPerSec == 2     \* resolution of a time.Time in the model

----------------------------------------------------------------------------
(* strings *)

\* byte order of the symbols that occur in labels
SymOrder == <<" ", "*", "1", "2", "_", "a", "b", "c", "l", "m", "x", "y", "{", "}">>

SymRank(c) == IF \E i \in 1..Len(SymOrder) : SymOrder[i] = c
              THEN CHOOSE i \in 1..Len(SymOrder) : SymOrder[i] = c
              ELSE 0

RECURSIVE StrLess(_, _)
StrLess(s, t) ==
    IF t = << >> THEN FALSE
    ELSE IF s = << >> THEN TRUE
    ELSE IF SymRank(Head(s)) # SymRank(Head(t)) THEN SymRank(Head(s)) < SymRank(Head(t))
    ELSE StrLess(Tail(s), Tail(t))

\* sort.Strings over the keys of a map: the keys are distinct
RECURSIVE SortStrings(_)
SortStrings(S) ==
    IF S = {} THEN << >>
    ELSE LET m == CHOOSE x \in S : \A y \in S \ {x} : StrLess(x, y)
         IN  <<m>> \o SortStrings(S \ {m})

\* strings.Index, 0-based, -1 when absent
Index(s, p) ==
    IF \E i \in 0..(Len(s) - Len(p)) : SubSeq(s, i + 1, i + Len(p)) = p
    THEN CHOOSE i \in 0..(Len(s) - Len(p)) :
            /\ SubSeq(s, i + 1, i + Len(p)) = p
            /\ \A k \in 0..(i - 1) : SubSeq(s, k + 1, k + Len(p)) # p
    ELSE -1

\* strings.LastIndex, 0-based, -1 when absent
LastIndex(s, p) ==
    IF \E i \in 0..(Len(s) - Len(p)) : SubSeq(s, i + 1, i + Len(p)) = p
    THEN CHOOSE i \in 0..(Len(s) - Len(p)) :
            /\ SubSeq(s, i + 1, i + Len(p)) = p
            /\ \A k \in (i + 1)..(Len(s) - Len(p)) : SubSeq(s, k + 1, k + Len(p)) # p
    ELSE -1

Contains(s, p) == Index(s, p) >= 0

\* strings.Replace(s, old, "", 1)
RemoveFirst(s, old) ==
    LET i == Index(s, old)
    IN  IF i < 0 THEN s
        ELSE SubSeq(s, 1, i) \o SubSeq(s, i + Len(old) + 1, Len(s))

RECURSIVE TrimLeft(_, _)
TrimLeft(s, cutset) ==
    IF s # << >> /\ Head(s) \in cutset THEN TrimLeft(Tail(s), cutset) ELSE s

RECURSIVE TrimRight(_, _)
TrimRight(s, cutset) ==
    IF s # << >> /\ s[Len(s)] \in cutset
    THEN TrimRight(SubSeq(s, 1, Len(s) - 1), cutset) ELSE s

\* strings.Trim
Trim(s, cutset) == TrimRight(TrimLeft(s, cutset), cutset)

TrimSpace(s) == Trim(s, {" "})

Digits == <<"0", "1", "2", "3", "4", "5", "6", "7", "8", "9">>

\* strconv.Itoa for a non-negative int
RECURSIVE Itoa(_)
Itoa(n) == IF n < 10 THEN <<Digits[n + 1]>>
           ELSE Itoa(n \div 10) \o <<Digits[(n % 10) + 1]>>

\* s[a:b] of Go, 0-based, half open
Slice(s, a, b) == SubSeq(s, a + 1, b)

----------------------------------------------------------------------------
(* time *)

\* t.Add(time.Duration(period) * time.Second)
AddSeconds(t, period) == t + period * TicksPerSec

\* float64(t.Unix() * 1000)
UnixMillis(t) == (t \div TicksPerSec) * 1000

----------------------------------------------------------------------------
(* cloudWatchQuery: its classification, a function of Expression,          *)
(* Dimensions and MatchExact                                               *)

Wildcard == <<"*">>

DimHasWildcard(values) == \E i \in 1..Len(values) : values[i] = Wildcard

isUserDefinedSearchExpression(query) == Contains(query.Expression, <<"SEARCH(">>)

isMathExpression(query) ==
    query.Expression # << >> /\ ~isUserDefinedSearchExpression(query)

isInferredSearchExpression(query) ==
    \/ ~query.MatchExact
    \/ \E d \in DOMAIN query.Dimensions :
          Len(query.Dimensions[d]) > 1 \/ DimHasWildcard(query.Dimensions[d])

isMultiValuedDimensionExpression(query) ==
    /\ \A d \in DOMAIN query.Dimensions : ~DimHasWildcard(query.Dimensions[d])
    /\ \E d \in DOMAIN query.Dimensions : Len(query.Dimensions[d]) > 1

----------------------------------------------------------------------------
(* formatAlias *)

\* query.Alias is a sequence of pieces [m, s]: s is the text, m says whether
\* the piece is a match of aliasFormat, a {{ name }} placeholder
AliasText(alias) ==
    LET RECURSIVE cat(_)
        cat(a) == IF a = << >> THEN << >> ELSE Head(a).s \o cat(Tail(a))
    IN  cat(alias)

\* the context map of formatAlias: dimensions are written last
AliasData(region, namespace, metricName, stat, period, dimensions, label) ==
    dimensions
    @@ (IF Len(label) # 0 THEN (<<"label">> :> label) ELSE << >>)
    @@ (<<"region">> :> region)
    @@ (<<"namespace">> :> namespace)
    @@ (<<"metric">> :> metricName)
    @@ (<<"stat">> :> stat)
    @@ (<<"period">> :> period)

\* the function handed to ReplaceAllFunc
ReplaceToken(in, data) ==
    LET labelName == TrimSpace(RemoveFirst(RemoveFirst(in, <<"{{">>), <<"}}">>))
    IN  IF labelName \in DOMAIN data THEN data[labelName] ELSE in

ReplaceAllFunc(alias, data) ==
    LET RECURSIVE cat(_)
        cat(a) == IF a = << >> THEN << >>
                  ELSE (IF Head(a).m THEN ReplaceToken(Head(a).s, data) ELSE Head(a).s)
                       \o cat(Tail(a))
    IN  cat(alias)

\* period and stat of a user defined search expression, read from its text
ExpressionPeriod(expression) ==
    LET pIndex == LastIndex(expression, <<",">>)
    IN  Trim(Slice(expression, pIndex + 1, Len(expression)), {" ", ")"})

ExpressionStat(expression) ==
    LET pIndex == LastIndex(expression, <<",">>)
        sIndex == LastIndex(Slice(expression, 0, pIndex), <<",">>)
    IN  Trim(Slice(expression, sIndex + 1, pIndex), {" ", "'"})

\* formatAlias that names by the label whether or not a dimension is multi-valued
formatAliasLabelForMulti(query, stat0, dimensions, label) ==
    LET userDefined == isUserDefinedSearchExpression(query)
        period == IF userDefined THEN ExpressionPeriod(query.Expression)
                  ELSE Itoa(query.Period)
        stat   == IF userDefined THEN ExpressionStat(query.Expression) ELSE stat0
        data   == AliasData(query.Region, query.Namespace, query.MetricName,
                            stat, period, dimensions, label)
        result == ReplaceAllFunc(query.Alias, data)
    IN  IF Len(AliasText(query.Alias)) = 0 /\ isMathExpression(query)
        THEN query.Id
        ELSE IF Len(AliasText(query.Alias)) = 0 /\ isInferredSearchExpression(query)
        THEN label
        ELSE IF result = << >> THEN query.MetricName \o <<"_">> \o stat
        ELSE result

formatAlias(query, stat0, dimensions, label) ==
    LET userDefined == isUserDefinedSearchExpression(query)
        period == IF userDefined THEN ExpressionPeriod(query.Expression)
                  ELSE Itoa(query.Period)
        stat   == IF userDefined THEN ExpressionStat(query.Expression) ELSE stat0
        data   == AliasData(query.Region, query.Namespace, query.MetricName,
                            stat, period, dimensions, label)
        result == ReplaceAllFunc(query.Alias, data)
    IN  IF Len(AliasText(query.Alias)) = 0 /\ isMathExpression(query)
        THEN query.Id
        ELSE IF /\ Len(AliasText(query.Alias)) = 0
                /\ isInferredSearchExpression(query)
                /\ ~isMultiValuedDimensionExpression(query)
        THEN label
        ELSE IF result = << >> THEN query.MetricName \o <<"_">> \o stat
        ELSE result

----------------------------------------------------------------------------
(* parseGetMetricDataTimeSeries *)

\* A *float64 is << v >>, nil is << >>.  An error is << e >>, nil is << >>.
\* A frame without Fields has Fields = << >>; the others have the two columns
\* << timestamp, value >>.

\* the dimensions the range loop of the zero-data branch can end on: Go ranges
\* over a map in an unspecified order, and only a strictly longer list replaces
\* the choice, so every dimension of the greatest length can be the one; ""
\* when no dimension has a value
DominantChoices(query) ==
    LET dims == query.Dimensions
        most == {d \in DOMAIN dims :
                    /\ Len(dims[d]) > 0
                    /\ \A e \in DOMAIN dims : Len(dims[e]) <= Len(dims[d])}
    IN  IF most = {} THEN {<< >>} ELSE most

\* EmptyFrameTags that leaves out the dimensions of more than one value
EmptyFrameTagsSingle(query, multiValuedDimension, value) ==
    LET dims == query.Dimensions
        others == {key \in DOMAIN dims :
                      key # multiValuedDimension /\ Len(dims[key]) = 1}
    IN  [key \in others |-> dims[key][1]] @@ (multiValuedDimension :> value)

\* tags of one empty frame
EmptyFrameTags(query, multiValuedDimension, value) ==
    LET dims == query.Dimensions
        others == {key \in DOMAIN dims :
                      key # multiValuedDimension /\ Len(dims[key]) > 0}
    IN  [key \in others |-> dims[key][1]] @@ (multiValuedDimension :> value)

\* one empty frame for each value of the chosen dimension
EmptyFrames(query, multiValuedDimension, label) ==
    LET values == IF multiValuedDimension \in DOMAIN query.Dimensions
                  THEN query.Dimensions[multiValuedDimension] ELSE << >>
    IN  [i \in 1..Len(values) |->
            LET tags == EmptyFrameTags(query, multiValuedDimension, values[i])
            IN  [Name |-> formatAlias(query, query.Stats, tags, label),
                 Fields |-> << >>,
                 Tags |-> tags]]

\* the tag a dimension with several values or a wildcard gets from the label:
\* each matching value overwrites the one before; << >> when none matches
RECURSIVE LabelTag(_, _, _)
LabelTag(values, label, acc) ==
    IF values = << >> THEN acc
    ELSE LET value == Head(values)
         IN  LabelTag(Tail(values), label,
                      IF value = label \/ value = Wildcard THEN <<label>>
                      ELSE IF Contains(label, value) THEN <<value>>
                      ELSE acc)

DimensionTag(values, label) ==
    IF Len(values) = 1 /\ values[1] # Wildcard THEN <<values[1]>>
    ELSE LabelTag(values, label, << >>)

\* tags of a frame with data
FrameTags(query, label) ==
    LET dims == query.Dimensions
        tagged == {dim \in DOMAIN dims : DimensionTag(dims[dim], label) # << >>}
    IN  [dim \in tagged |-> DimensionTag(dims[dim], label)[1]]

\* GapFill with the filled in point appended after the pair it belongs before
RECURSIVE GapFillAfter(_, _, _, _)
GapFillAfter(Timestamps, Values, period, j) ==
    IF j > Len(Timestamps) THEN [timestamps |-> << >>, points |-> << >>]
    ELSE LET t == Timestamps[j]
             expectedTimestamp == AddSeconds(Timestamps[IF j > 1 THEN j - 1 ELSE j], period)
             gap == j > 1 /\ expectedTimestamp < t
             rest == GapFillAfter(Timestamps, Values, period, j + 1)
         IN  [timestamps |-> <<UnixMillis(t)>>
                              \o (IF gap THEN <<UnixMillis(expectedTimestamp)>> ELSE << >>)
                              \o rest.timestamps,
              points |-> <<Values[j]>> \o (IF gap THEN << << >> >> ELSE << >>)
                          \o rest.points]

\* GapFill that also fills in a point where the next one is due
RECURSIVE GapFillInclusive(_, _, _, _)
GapFillInclusive(Timestamps, Values, period, j) ==
    IF j > Len(Timestamps) THEN [timestamps |-> << >>, points |-> << >>]
    ELSE LET t == Timestamps[j]
             expectedTimestamp == AddSeconds(Timestamps[IF j > 1 THEN j - 1 ELSE j], period)
             gap == j > 1 /\ expectedTimestamp <= t
             rest == GapFillInclusive(Timestamps, Values, period, j + 1)
         IN  [timestamps |-> (IF gap THEN <<UnixMillis(expectedTimestamp)>> ELSE << >>)
                              \o <<UnixMillis(t)>> \o rest.timestamps,
              points |-> (IF gap THEN << << >> >> ELSE << >>)
                          \o <<Values[j]>> \o rest.points]

\* the loop over metricDataResult.Timestamps: the columns built from j on
RECURSIVE GapFill(_, _, _, _)
GapFill(Timestamps, Values, period, j) ==
    IF j > Len(Timestamps) THEN [timestamps |-> << >>, points |-> << >>]
    ELSE LET t == Timestamps[j]
             expectedTimestamp == AddSeconds(Timestamps[IF j > 1 THEN j - 1 ELSE j], period)
             gap == j > 1 /\ expectedTimestamp < t
             rest == GapFill(Timestamps, Values, period, j + 1)
         IN  [timestamps |-> (IF gap THEN <<UnixMillis(expectedTimestamp)>> ELSE << >>)
                              \o <<UnixMillis(t)>> \o rest.timestamps,
              points |-> (IF gap THEN << << >> >> ELSE << >>)
                          \o <<Values[j]>> \o rest.points]

DataFrame(metricDataResult, query, label) ==
    LET tags == FrameTags(query, label)
        cols == GapFill(metricDataResult.Timestamps, metricDataResult.Values, query.Period, 1)
    IN  [Name |-> formatAlias(query, query.Stats, tags, label),
         Fields |-> <<cols.timestamps, cols.points>>,
         Tags |-> tags]

\* the frames one label adds
LabelFrames(metricDataResult, query, label, multiValuedDimension) ==
    IF Len(metricDataResult.Values) = 0 /\ isMultiValuedDimensionExpression(query)
    THEN EmptyFrames(query, multiValuedDimension, label)
    ELSE <<DataFrame(metricDataResult, query, label)>>

HasArithmeticError(metricDataResult) ==
    \E i \in 1..Len(metricDataResult.Messages) :
        metricDataResult.Messages[i].Code = "ArithmeticError"

ArithmeticErrorOf(metricDataResult, query) ==
    LET i == CHOOSE k \in 1..Len(metricDataResult.Messages) :
                /\ metricDataResult.Messages[k].Code = "ArithmeticError"
                /\ \A h \in 1..(k - 1) : metricDataResult.Messages[h].Code # "ArithmeticError"
    IN  [Code |-> "ArithmeticError", RefId |-> query.RefId,
         Value |-> metricDataResult.Messages[i].Value]

\* FormatFrom with partialData assigned from each label in turn
RECURSIVE FormatFromLastPartial(_, _, _, _, _, _, _)
FormatFromLastPartial(metricDataResults, query, dominant, labels, i, partialData, frames) ==
    IF i > Len(labels) THEN [frames |-> frames, partialData |-> partialData, err |-> << >>]
    ELSE LET label == labels[i]
             metricDataResult == metricDataResults[label]
             partial == metricDataResult.StatusCode # "Complete"
         IN  IF HasArithmeticError(metricDataResult)
             THEN [frames |-> << >>, partialData |-> FALSE,
                   err |-> <<ArithmeticErrorOf(metricDataResult, query)>>]
             ELSE FormatFromLastPartial(metricDataResults, query, dominant, labels, i + 1,
                      partial,
                      frames \o LabelFrames(metricDataResult, query, label, dominant[label]))

\* the loop over the sorted labels, from the i-th on
RECURSIVE FormatFrom(_, _, _, _, _, _, _)
FormatFrom(metricDataResults, query, dominant, labels, i, partialData, frames) ==
    IF i > Len(labels) THEN [frames |-> frames, partialData |-> partialData, err |-> << >>]
    ELSE LET label == labels[i]
             metricDataResult == metricDataResults[label]
             partial == partialData \/ metricDataResult.StatusCode # "Complete"
         IN  IF HasArithmeticError(metricDataResult)
             THEN [frames |-> << >>, partialData |-> FALSE,
                   err |-> <<ArithmeticErrorOf(metricDataResult, query)>>]
             ELSE FormatFrom(metricDataResults, query, dominant, labels, i + 1, partial,
                             frames \o LabelFrames(metricDataResult, query, label,
                                                   dominant[label]))

\* parseGetMetricDataTimeSeries without the sort: the labels as a range over
\* the map can give them, here from the last of the sorted ones to the first
parseGetMetricDataTimeSeriesUnsorted(metricDataResults, query, dominant) ==
    LET sorted == SortStrings(DOMAIN metricDataResults)
    IN  FormatFrom(metricDataResults, query, dominant,
                   [i \in 1..Len(sorted) |-> sorted[Len(sorted) + 1 - i]], 1, FALSE, << >>)

\* metricDataResults: label -> merged result; dominant: label -> the dimension
\* the zero-data branch picks for that label
parseGetMetricDataTimeSeries(metricDataResults, query, dominant) ==
    FormatFrom(metricDataResults, query, dominant,
               SortStrings(DOMAIN metricDataResults), 1, FALSE, << >>)

----------------------------------------------------------------------------
(* parseResponse *)

\* mdr holds pointers to the results of metricDataOutputs: << b, i >> is the
\* i-th result of the b-th output, and writing through it writes that object
Deref(outputs, ref) == outputs[ref[1]].MetricDataResults[ref[2]]

requestExceededMaxLimitOf(mdo) ==
    \E k \in 1..Len(mdo.Messages) : mdo.Messages[k].Code = "MaxMetricsExceeded"

\* MergeResult with the new page put before the pages merged so far
MergeResultPrepend(st, b, i) ==
    LET r == st.outputs[b].MetricDataResults[i]
        key == <<r.Id, r.Label>>
        seen == key \in DOMAIN st.mdr
        ref == st.mdr[key]
        old == Deref(st.outputs, ref)
        appended == [old EXCEPT !.Timestamps = r.Timestamps \o @,
                                !.Values = r.Values \o @,
                                !.StatusCode = IF r.StatusCode = "Complete"
                                               THEN r.StatusCode ELSE @]
        outputs1 == IF seen
                    THEN [st.outputs EXCEPT ![ref[1]].MetricDataResults[ref[2]] = appended]
                    ELSE st.outputs
        mdr1 == IF seen THEN st.mdr ELSE st.mdr @@ (key :> <<b, i>>)
    IN  IF r.Id \notin DOMAIN st.queries
        THEN [outputs |-> outputs1, queries |-> st.queries, mdr |-> mdr1, panic |-> TRUE]
        ELSE [outputs |-> outputs1,
              queries |-> [st.queries EXCEPT
                              ![r.Id].RequestExceededMaxLimit =
                                  requestExceededMaxLimitOf(st.outputs[b])],
              mdr |-> mdr1,
              panic |-> FALSE]

\* MergeResult with the status of the page merged last
MergeResultLastStatus(st, b, i) ==
    LET r == st.outputs[b].MetricDataResults[i]
        key == <<r.Id, r.Label>>
        seen == key \in DOMAIN st.mdr
        ref == st.mdr[key]
        old == Deref(st.outputs, ref)
        appended == [old EXCEPT !.Timestamps = @ \o r.Timestamps,
                                !.Values = @ \o r.Values,
                                !.StatusCode = r.StatusCode]
        outputs1 == IF seen
                    THEN [st.outputs EXCEPT ![ref[1]].MetricDataResults[ref[2]] = appended]
                    ELSE st.outputs
        mdr1 == IF seen THEN st.mdr ELSE st.mdr @@ (key :> <<b, i>>)
    IN  IF r.Id \notin DOMAIN st.queries
        THEN [outputs |-> outputs1, queries |-> st.queries, mdr |-> mdr1, panic |-> TRUE]
        ELSE [outputs |-> outputs1,
              queries |-> [st.queries EXCEPT
                              ![r.Id].RequestExceededMaxLimit =
                                  requestExceededMaxLimitOf(st.outputs[b])],
              mdr |-> mdr1,
              panic |-> FALSE]

\* the body of the loop over mdo.MetricDataResults, for the result r = << b, i >>
\* st: [outputs, queries, mdr, panic]
MergeResult(st, b, i) ==
    LET r == st.outputs[b].MetricDataResults[i]
        key == <<r.Id, r.Label>>
        seen == key \in DOMAIN st.mdr
        ref == st.mdr[key]
        old == Deref(st.outputs, ref)
        appended == [old EXCEPT !.Timestamps = @ \o r.Timestamps,
                                !.Values = @ \o r.Values,
                                !.StatusCode = IF r.StatusCode = "Complete"
                                               THEN r.StatusCode ELSE @]
        outputs1 == IF seen
                    THEN [st.outputs EXCEPT ![ref[1]].MetricDataResults[ref[2]] = appended]
                    ELSE st.outputs
        mdr1 == IF seen THEN st.mdr ELSE st.mdr @@ (key :> <<b, i>>)
    IN  IF r.Id \notin DOMAIN st.queries
        THEN \* queries[*r.Id] is nil: the assignment dereferences it
             [outputs |-> outputs1, queries |-> st.queries, mdr |-> mdr1, panic |-> TRUE]
        ELSE [outputs |-> outputs1,
              queries |-> [st.queries EXCEPT
                              ![r.Id].RequestExceededMaxLimit =
                                  requestExceededMaxLimitOf(st.outputs[b])],
              mdr |-> mdr1,
              panic |-> FALSE]

\* the two nested loops, from result i of output b on
RECURSIVE MergeFrom(_, _, _)
MergeFrom(st, b, i) ==
    IF st.panic \/ b > Len(st.outputs) THEN st
    ELSE IF i > Len(st.outputs[b].MetricDataResults) THEN MergeFrom(st, b + 1, 1)
    ELSE MergeFrom(MergeResult(st, b, i), b, i + 1)

\* lines 17-41
Merge(metricDataOutputs, qs) ==
    MergeFrom([outputs |-> metricDataOutputs, queries |-> qs, mdr |-> << >>,
               panic |-> FALSE], 1, 1)

MdrIds(m) == {key[1] : key \in DOMAIN m}

\* mdr[id] with the pointers followed: label -> result
MergedOf(outputs, m, id) ==
    [label \in {key[2] : key \in {k \in DOMAIN m : k[1] = id}} |->
        Deref(outputs, m[<<id, label>>])]

Response(query, frames, partialData) ==
    [DataFrames |-> frames,
     Period |-> query.Period,
     Expression |-> query.UsedExpression,
     RefId |-> query.RefId,
     Id |-> query.Id,
     RequestExceededMaxLimit |-> query.RequestExceededMaxLimit,
     PartialData |-> partialData]

\* parseGetMetricDataTimeSeries(lr, queries[id])
FormatMerged(lr, query, id, dominant) ==
    parseGetMetricDataTimeSeries(lr, query, [label \in DOMAIN lr |-> dominant[<<id, label>>]])

FormatId(st, id, dominant) ==
    FormatMerged(MergedOf(st.outputs, st.mdr, id), st.queries[id], id, dominant)

\* the loop over mdr, in the order idOrder the range takes, from the k-th id on;
\* RespondWith is the rest of its body once the frames of the k-th id are got
RECURSIVE RespondFrom(_, _, _, _, _)
RECURSIVE RespondWith(_, _, _, _, _, _)
RespondWith(st, idOrder, dominant, k, acc, got) ==
    IF got.err # << >> THEN [responses |-> << >>, err |-> got.err]
    ELSE RespondFrom(st, idOrder, dominant, k + 1,
             Append(acc, Response(st.queries[idOrder[k]], got.frames, got.partialData)))

RespondFrom(st, idOrder, dominant, k, acc) ==
    IF k > Len(idOrder) THEN [responses |-> acc, err |-> << >>]
    ELSE RespondWith(st, idOrder, dominant, k, acc, FormatId(st, idOrder[k], dominant))

\* what the call leaves behind when it returns out, and when it panics
Return(st, out) ==
    [outputs |-> st.outputs, queries |-> st.queries, mdr |-> st.mdr,
     responses |-> out.responses, err |-> out.err, panic |-> FALSE]

Panic(st) ==
    [outputs |-> st.outputs, queries |-> st.queries, mdr |-> st.mdr,
     responses |-> << >>, err |-> << >>, panic |-> TRUE]

\* lines 43-63 after the merge st; idOrder and dominant are the orders the map
\* ranges take
Finish(st, idOrder, dominant) ==
    IF st.panic THEN Panic(st)
    ELSE Return(st, RespondFrom(st, idOrder, dominant, 1, << >>))

Perms(S) == {f \in [1..Cardinality(S) -> S] : \A a, b \in DOMAIN f : f[a] = f[b] => a = b}

\* the orders the range over mdr can take
IdOrders(st) == Perms(MdrIds(st.mdr))

\* the choices the zero-data branch can make, one for each merged result
DominantOrders(st) ==
    IF st.panic THEN {<< >>}
    ELSE {f \in [DOMAIN st.mdr -> UNION {DominantChoices(st.queries[id]) : id \in MdrIds(st.mdr)}] :
            \A key \in DOMAIN st.mdr : f[key] \in DominantChoices(st.queries[key[1]])}

\* the outcomes of the call after the merge st
Outcomes(st) ==
    {Finish(st, idOrder, dominant) : idOrder \in IdOrders(st), dominant \in DominantOrders(st)}

\* the outcomes of parseResponse(metricDataOutputs, queries), one for each
\* order the ranges over the maps can take
parseResponse(metricDataOutputs, qs) == Outcomes(Merge(metricDataOutputs, qs))

----------------------------------------------------------------------------
(* inputs *)

Message(code) == [Code |-> code, Value |-> <<"x">>]

\* a MetricDataResult; points is a sequence of << tick, value >>
Result(id, label, points, status, messages) ==
    [Id |-> id, Label |-> label,
     Timestamps |-> [j \in 1..Len(points) |-> points[j][1]],
     Values |-> [j \in 1..Len(points) |-> <<points[j][2]>>],
     StatusCode |-> status,
     Messages |-> messages]

Query(id, refId) ==
    [RefId |-> refId, Id |-> id,
     Region |-> <<"r">>, Namespace |-> <<"n">>, MetricName |-> <<"m">>,
     Stats |-> <<"s">>,
     Expression |-> << >>, UsedExpression |-> << >>,
     Dimensions |-> << >>,
     Period |-> 1,
     Alias |-> << >>,
     MatchExact |-> TRUE,
     RequestExceededMaxLimit |-> FALSE]

Q1 == <<"q", "1">>
Q2 == <<"q", "2">>
QX == <<"q", "x">>     \* an id no query has

TwoQueries == (Q1 :> Query(Q1, <<"A">>)) @@ (Q2 :> Query(Q2, <<"B">>))

\* the k-th smallest element of a set of numbers
Nth(S, k) == CHOOSE x \in S : Cardinality({y \in S : y < x}) = k - 1

\* the results rs cut into outputs after the positions in cuts, the b-th output
\* carrying the messages msgs[b]
Outputs(rs, cuts, msgs) ==
    LET starts == {1} \cup {k + 1 : k \in cuts}
        nb == Cardinality(starts)
        first(b) == Nth(starts, b)
        last(b) == IF b = nb THEN Len(rs) ELSE Nth(starts, b + 1) - 1
    IN  [b \in 1..nb |-> [Messages |-> msgs[b],
                          MetricDataResults |-> SubSeq(rs, first(b), last(b))]]

NoMessages == {<< >>}

OnePoint == {<< <<1, 1>> >>, << <<4, 2>> >>}

\* pages of one query: labels, data and status vary
PagedResults ==
    {Result(Q1, <<"a">>, points, status, << >>) :
        points \in OnePoint, status \in {"Complete", "PartialData"}}
    \cup {Result(Q1, <<"b">>, << <<1, 1>> >>, status, << >>) :
              status \in {"Complete", "PartialData"}}

\* the limit message of an output, and results of known and unknown queries
LimitResults ==
    {Result(id, <<"a">>, << <<1, 1>> >>, "Complete", << >>) : id \in {Q1, Q2, QX}}

LimitMessages == {<< >>, <<Message("MaxMetricsExceeded")>>}

\* results that carry an ArithmeticError
ErrorResults ==
    {Result(key[1], key[2], << <<1, 1>> >>, "Complete", messages) :
        key \in {<<Q1, <<"a">> >>, <<Q1, <<"b">> >>, <<Q2, <<"a">> >>},
        messages \in {<< >>, <<Message("ArithmeticError")>>}}


----------------------------------------------------------------------------
(* the calls *)

NoRerun == [perm |-> << >>, responses |-> << >>, err |-> << >>, panic |-> FALSE]

\* the state when parseResponse is called with qs and outputs
Called(qs, outputs) ==
    /\ queries = qs
    /\ batches = outputs
    /\ input = outputs
    /\ mdr = << >>
    /\ responses = << >>
    /\ err = << >>
    /\ rerun = NoRerun
    /\ pc = "start"

\* every way to send at most MaxResults results of F, in one output or several,
\* each output with messages of M
CalledOver(qs, F, M) ==
    \E n \in 1..MaxResults :
        \E rs \in [1..n -> F], cuts \in SUBSET (1..(n - 1)) :
            \E msgs \in [1..(Cardinality(cuts) + 1) -> M] :
                Called(qs, Outputs(rs, cuts, msgs))

\* one output with one result
CalledWith(query, result) ==
    Called(query.Id :> query, <<[Messages |-> << >>, MetricDataResults |-> <<result>>]>>)

\* one result of up to MaxPoints points in time order, the j-th with value j
CalledGaps ==
    \E n \in 0..MaxPoints, period \in {1, 2} :
        \E ticks \in [1..n -> 0..MaxTick] :
            /\ \A j \in 2..n : ticks[j - 1] <= ticks[j]
            /\ CalledWith([Query(Q1, <<"A">>) EXCEPT !.Period = period],
                       Result(Q1, <<"a">>, [j \in 1..n |-> <<ticks[j], j>>], "Complete", << >>))

D1 == <<"d1">>
D2 == <<"d2">>

DimValues == {<<"a">>, <<"b">>, <<"c">>, Wildcard}

\* the lists of distinct candidate values
DimValueLists ==
    UNION {{f \in [1..n -> DimValues] : \A i, j \in 1..n : f[i] = f[j] => i = j} :
           n \in 0..Cardinality(DimValues)}

\* queries over every choice of dimensions, with and without data
CalledDimensions ==
    \E names \in SUBSET {D1, D2}, points \in {<< >>, << <<1, 1>> >>} :
        \E dims \in [names -> DimValueLists], label \in {<<"a">>, <<"a", "b">>} :
            CalledWith([Query(Q1, <<"A">>) EXCEPT !.Dimensions = dims],
                       Result(Q1, label, points, "Complete", << >>))

Literal(text) == [m |-> FALSE, s |-> text]
Token(name, pad) == [m |-> TRUE, s |-> <<"{{">> \o pad \o <<name>> \o pad \o <<"}}">>]

Aliases ==
    {<< >>, <<Literal(<<"x">>)>>,
     <<Token("metric", << >>), Literal(<<"_">>), Token("stat", << >>)>>,
     <<Token("d1", << >>)>>, <<Token("zz", <<" ">>)>>}
    \cup {<<Token(name, pad)>> :
              name \in {"region", "namespace", "period", "label"}, pad \in {<< >>, <<" ">>}}

\* a user defined search expression, of statistic SearchStat and period SearchPeriod
SearchStat == <<"t">>
SearchPeriod == <<"6">>
SearchExpression ==
    <<"SEARCH(", "'", "x", "'", ",", " ", "'">> \o SearchStat \o <<"'", ",", " ">>
        \o SearchPeriod \o <<")">>

Expressions == {<< >>, <<"a", "+", "b">>, SearchExpression}

AliasDimensions ==
    {<< >>, D1 :> << <<"a">> >>, D1 :> << <<"a">>, <<"b">> >>,
     D1 :> <<Wildcard>>, D1 :> << << >> >>}

\* queries over every alias, kind of expression and kind of dimension
CalledAliases ==
    \E alias \in Aliases, expression \in Expressions, matchExact \in BOOLEAN :
        \E dims \in AliasDimensions, label \in {<< >>, <<"a">>} :
            \E points \in {<< >>, << <<1, 1>> >>} :
                CalledWith([Query(Q1, <<"A">>) EXCEPT !.Alias = alias,
                                                     !.Expression = expression,
                                                     !.MatchExact = matchExact,
                                                     !.Dimensions = dims],
                           Result(Q1, label, points, "Complete", << >>))

\* labels of one and of two symbols, one a prefix of another
LabelNames == {<<"a">>, <<"a", "b">>, <<"b">>, <<"b", "a">>}

\* a result of a label, without data or with one point that tells the label
LabelPoints(label) ==
    {<< >>, << <<Len(label), IF Head(label) = "a" THEN 1 ELSE 2>> >>}

LabelResults ==
    UNION {{Result(Q1, label, points, "Complete", << >>) : points \in LabelPoints(label)} :
           label \in LabelNames}

\* one output for a query that is named by its labels, with up to MaxResults
\* results in every order
CalledLabels ==
    \E n \in 1..MaxResults :
        \E rs \in [1..n -> LabelResults] :
            Called(Q1 :> [Query(Q1, <<"A">>) EXCEPT !.MatchExact = FALSE],
                   <<[Messages |-> << >>, MetricDataResults |-> rs]>>)

Init ==
    \/ CalledOver(TwoQueries, PagedResults, NoMessages)
    \/ CalledOver(TwoQueries, LimitResults, LimitMessages)
    \/ CalledOver(TwoQueries, ErrorResults, NoMessages)
    \/ CalledGaps
    \/ CalledDimensions
    \/ CalledAliases
    \/ CalledLabels

\* the call returns, or panics, with out
Returns(out) ==
    /\ batches' = out.outputs
    /\ queries' = out.queries
    /\ mdr' = out.mdr
    /\ responses' = out.responses
    /\ err' = out.err
    /\ pc' = IF out.panic THEN "panic" ELSE "done"

\* parseResponse(metricDataOutputs, queries)
ParseResponse ==
    /\ pc = "start"
    /\ \E out \in parseResponse(batches, queries) : Returns(out)
    /\ UNCHANGED <<input, rerun>>

\* the queries as built for a request
FreshQueries == [id \in DOMAIN queries |-> [queries[id] EXCEPT !.RequestExceededMaxLimit = FALSE]]

\* the same outputs, as received, arriving in the order perm
Permuted(perm) == [b \in 1..Len(input) |-> input[perm[b]]]

\* the order as it was, and the orders with two neighbours exchanged: every
\* order of every input is reached from some input by such exchanges
Exchanges(n) ==
    {[b \in 1..n |-> b]} \cup
    {[b \in 1..n |-> IF b = k THEN k + 1 ELSE IF b = k + 1 THEN k ELSE b] : k \in 1..(n - 1)}

Rerun(perm, out) ==
    [perm |-> perm, responses |-> out.responses, err |-> out.err, panic |-> out.panic]

\* a second request that gets the same outputs in another order
ParseResponsePermuted ==
    /\ pc = "done"
    /\ \E perm \in Exchanges(Len(input)) :
          \E out \in parseResponse(Permuted(perm), FreshQueries) :
              rerun' = Rerun(perm, out)
    /\ pc' = "rerun"
    /\ UNCHANGED <<queries, batches, input, mdr, responses, err>>

Next == ParseResponse

Spec == Init /\ [][Next]_vars

\* the call, and then the same outputs in another order
NextPermuted == ParseResponse \/ ParseResponsePermuted

SpecPermuted == Init /\ [][NextPermuted]_vars

----------------------------------------------------------------------------
(* what the claims speak of *)

Returned == pc \in {"done", "rerun"}

RECURSIVE Flatten(_)
Flatten(outputs) ==
    IF outputs = << >> THEN << >>
    ELSE Head(outputs).MetricDataResults \o Flatten(Tail(outputs))

\* the results the caller passed, in arrival order
Fragments == Flatten(input)

\* those of one id and label
FragmentsOf(key) == SelectSeq(Fragments, LAMBDA r : <<r.Id, r.Label>> = key)

InputKeys == {<<Fragments[i].Id, Fragments[i].Label>> : i \in 1..Len(Fragments)}

RECURSIVE AllTimestamps(_)
AllTimestamps(frs) ==
    IF frs = << >> THEN << >> ELSE Head(frs).Timestamps \o AllTimestamps(Tail(frs))

RECURSIVE AllValues(_)
AllValues(frs) ==
    IF frs = << >> THEN << >> ELSE Head(frs).Values \o AllValues(Tail(frs))

SomeComplete(frs) == \E i \in 1..Len(frs) : frs[i].StatusCode = "Complete"

\* the merged result of a key of mdr
Merged(key) == Deref(batches, mdr[key])

\* C1: when the merge has run, mdr has one entry for each (id, label) of the
\* input, whose timestamps and values are those of the fragments of that key
\* one after the other in arrival order, and whose status is Complete exactly
\* when one of the fragments is
C1_MergeConcatenates ==
    Returned =>
        /\ DOMAIN mdr = InputKeys
        /\ \A key \in DOMAIN mdr :
              /\ Merged(key).Timestamps = AllTimestamps(FragmentsOf(key))
              /\ Merged(key).Values = AllValues(FragmentsOf(key))
              /\ Merged(key).StatusCode = "Complete" <=> SomeComplete(FragmentsOf(key))

\* a Complete page followed by an incomplete one of the same label, with other data
C1_Witness ==
    /\ pc = "done"
    /\ \E key \in DOMAIN mdr :
          LET frs == FragmentsOf(key)
          IN  /\ Len(frs) >= 2
              /\ frs[1].StatusCode = "Complete"
              /\ frs[2].StatusCode # "Complete"
              /\ frs[1].Timestamps # frs[2].Timestamps
              /\ Len(input) >= 2
              /\ Merged(key).StatusCode = "Complete"

\* the ids of the queries that have a result in an output with the limit message
LimitReported ==
    UNION {{input[b].MetricDataResults[i].Id : i \in 1..Len(input[b].MetricDataResults)} :
           b \in {c \in 1..Len(input) : requestExceededMaxLimitOf(input[c])}}

ResponsesOf(rs, id) == {rs[k] : k \in {h \in 1..Len(rs) : rs[h].Id = id}}

\* C2: when the call has returned, every query with a result in an output that
\* carried MaxMetricsExceeded has RequestExceededMaxLimit set, and so has its response
C2_LimitFlagSticky ==
    pc = "done" =>
        \A id \in LimitReported :
            /\ queries[id].RequestExceededMaxLimit
            /\ \A r \in ResponsesOf(responses, id) : r.RequestExceededMaxLimit

\* the labels mdr has for an id
LabelsOf(id) == {key[2] : key \in {k \in DOMAIN mdr : k[1] = id}}

FailedIds == {key[1] : key \in {k \in DOMAIN mdr : HasArithmeticError(Merged(k))}}

\* what a query gets when it is formatted alone
AloneResponses(id) ==
    {Response(queries[id], got.frames, got.partialData) :
        got \in {parseGetMetricDataTimeSeries(MergedOf(batches, mdr, id), queries[id], dominant) :
                    dominant \in [LabelsOf(id) -> DominantChoices(queries[id])]}}

\* C3: when a merged result of a query carries ArithmeticError, the error names
\* such a query, and every query without one has the response it gets alone
C3_ArithmeticErrorIsolated ==
    (pc = "done" /\ FailedIds # {}) =>
        /\ err # << >>
        /\ \E id \in FailedIds : err[1].RefId = queries[id].RefId
        /\ \A id \in MdrIds(mdr) \ FailedIds :
              \E r \in ResponsesOf(responses, id) : r \in AloneResponses(id)

FragmentsOfId(id) == SelectSeq(Fragments, LAMBDA r : r.Id = id)

\* C4 as claimed: PartialData of a response is set exactly when some fragment
\* of the query, of any label, is not Complete
C4_PartialDataAnyFragment ==
    (pc = "done" /\ err = << >>) =>
        \A k \in 1..Len(responses) :
            responses[k].PartialData <=>
                \E i \in 1..Len(FragmentsOfId(responses[k].Id)) :
                    FragmentsOfId(responses[k].Id)[i].StatusCode # "Complete"

\* C4: PartialData of a response is set exactly when the query has a label
\* none of whose fragments is Complete
C4_PartialDataPerLabel ==
    (pc = "done" /\ err = << >>) =>
        \A k \in 1..Len(responses) :
            responses[k].PartialData <=>
                \E label \in LabelsOf(responses[k].Id) :
                    ~SomeComplete(FragmentsOf(<<responses[k].Id, label>>))

\* a response with PartialData set by one label, another label of the query
\* having a Complete page next to an incomplete one
C4_Witness ==
    /\ pc = "done"
    /\ err = << >>
    /\ \E k \in 1..Len(responses) :
          /\ responses[k].PartialData
          /\ \E label \in LabelsOf(responses[k].Id) :
                LET frs == FragmentsOf(<<responses[k].Id, label>>)
                IN  /\ SomeComplete(frs)
                    /\ \E i \in 1..Len(frs) : frs[i].StatusCode # "Complete"

TiedFanOut(id) ==
    /\ isMultiValuedDimensionExpression(queries[id])
    /\ Cardinality(DominantChoices(queries[id])) > 1
    /\ \E label \in LabelsOf(id) : Len(Merged(<<id, label>>).Values) = 0

\* names and tags of the frames, and which of them have fields
Outline(frames) ==
    [i \in 1..Len(frames) |->
        [Name |-> frames[i].Name, Tags |-> frames[i].Tags,
         Empty |-> frames[i].Fields = << >>]]

SortedSeq(ts) == \A j \in 2..Len(ts) : ts[j - 1] <= ts[j]

\* the timestamp columns of the frames of the responses
TimestampColumns ==
    UNION {{responses[k].DataFrames[i].Fields[1] :
               i \in {j \in 1..Len(responses[k].DataFrames) :
                         responses[k].DataFrames[j].Fields # << >>}} :
           k \in 1..Len(responses)}

\* C6 as claimed: when the timestamps of every fragment are in time order, so
\* is the timestamp column of every frame
C6_TimestampsSorted ==
    (pc = "done" /\ err = << >>
       /\ \A i \in 1..Len(Fragments) : SortedSeq(Fragments[i].Timestamps)) =>
        \A col \in TimestampColumns : SortedSeq(col)

\* C6: when, for every id and label, the timestamps of its fragments taken one
\* after the other in arrival order are in time order, so is the timestamp
\* column of every frame
C6_TimestampsSortedWhenPagesAre ==
    (pc = "done" /\ err = << >>
       /\ \A key \in InputKeys : SortedSeq(AllTimestamps(FragmentsOf(key)))) =>
        \A col \in TimestampColumns : SortedSeq(col)

\* two pages of a label that follow each other in time, with a point filled
\* in between them
C6_Witness ==
    /\ pc = "done"
    /\ err = << >>
    /\ \A key \in InputKeys : SortedSeq(AllTimestamps(FragmentsOf(key)))
    /\ \E key \in InputKeys :
          /\ Len(FragmentsOf(key)) >= 2
          /\ \E col \in TimestampColumns : Len(col) > Len(Merged(key).Timestamps)

UnknownIds == {Fragments[i].Id : i \in 1..Len(Fragments)} \ DOMAIN queries

\* C7: a call with a result of an unknown id returns an error and no response,
\* and a call without one does not fail in the merge
C7_UnknownIdIsError ==
    pc # "start" =>
        IF UnknownIds # {}
        THEN pc = "done" /\ err # << >> /\ responses = << >>
        ELSE pc # "panic"

\* no label of the query takes the zero-data branch: a frame for each label
NoFanOut(id) ==
    \A label \in LabelsOf(id) :
        ~(Len(Merged(<<id, label>>).Values) = 0
            /\ isMultiValuedDimensionExpression(queries[id]))

\* the places where a point is due before the next one comes
Boundaries(T, period) ==
    {j \in 2..Len(T) : T[j - 1] + period * TicksPerSec < T[j]}

\* cols is T and V with one nil point put in at each boundary
GapFilled(T, V, period, cols) ==
    LET B == Boundaries(T, period)
        at(j) == j + Cardinality({k \in B : k <= j})
    IN  /\ Len(cols[1]) = Len(T) + Cardinality(B)
        /\ Len(cols[2]) = Len(T) + Cardinality(B)
        /\ \A j \in 1..Len(T) :
              /\ cols[1][at(j)] = ((T[j] \div TicksPerSec) * 1000)
              /\ cols[2][at(j)] = V[j]
              /\ j \in B =>
                    /\ cols[1][at(j) - 1] =
                           (((T[j - 1] + period * TicksPerSec) \div TicksPerSec) * 1000)
                    /\ cols[2][at(j) - 1] = << >>

\* C8: the columns of a frame with data are the merged pairs in their order,
\* with one nil point at timestamps[j-1] + period before pair j exactly when
\* that time is before timestamps[j]
C8_GapFilling ==
    (pc = "done" /\ err = << >>) =>
        \A k \in 1..Len(responses) :
            LET id == responses[k].Id
                labels == SortStrings(LabelsOf(id))
            IN  NoFanOut(id) =>
                    /\ Len(responses[k].DataFrames) = Len(labels)
                    /\ \A i \in 1..Len(labels) :
                          GapFilled(Merged(<<id, labels[i]>>).Timestamps,
                                    Merged(<<id, labels[i]>>).Values,
                                    queries[id].Period,
                                    responses[k].DataFrames[i].Fields)

\* a result with a point that comes when it is due and a point that comes
\* three periods or more after the one before it
C8_Witness ==
    /\ pc = "done"
    /\ err = << >>
    /\ \E key \in DOMAIN mdr :
          LET T == Merged(key).Timestamps
              period == queries[key[1]].Period
          IN  /\ NoFanOut(key[1])
              /\ \E j \in 2..Len(T) : T[j - 1] + period * TicksPerSec = T[j]
              /\ \E j \in 2..Len(T) : T[j - 1] + 3 * period * TicksPerSec <= T[j]
              /\ \E k \in 1..Len(responses) :
                    /\ responses[k].Id = key[1]
                    /\ Len(responses[k].DataFrames[1].Fields[1]) = Len(T) + 1

\* the dimensions with the most candidate values
Longest(dims) ==
    {d \in DOMAIN dims : \A e \in DOMAIN dims : Len(dims[e]) <= Len(dims[d])}

\* frames are the empty frames of dimension d, the dimensions of others
\* tagged with their first value next to it
EmptyFramesOf(frames, dims, d, others) ==
    /\ Len(frames) = Len(dims[d])
    /\ \A i \in 1..Len(frames) :
          /\ frames[i].Fields = << >>
          /\ DOMAIN frames[i].Tags = {d} \cup others
          /\ frames[i].Tags[d] = dims[d][i]
          /\ \A e \in others : frames[i].Tags[e] = dims[e][1]

\* the responses of multi-valued queries whose only merged result has no values
ZeroDataResponses ==
    {k \in 1..Len(responses) :
        /\ isMultiValuedDimensionExpression(queries[responses[k].Id])
        /\ \E label \in LabelsOf(responses[k].Id) :
              /\ LabelsOf(responses[k].Id) = {label}
              /\ Len(Merged(<<responses[k].Id, label>>).Values) = 0}

\* C9 as claimed, where one dimension has the most values: the frames are the
\* empty frames of that dimension, tagged besides with the dimensions that
\* have exactly one value
C9_EmptyFramesSingleValuedTags ==
    (pc = "done" /\ err = << >>) =>
        \A k \in ZeroDataResponses :
            LET dims == queries[responses[k].Id].Dimensions
            IN  \A d \in Longest(dims) :
                    Longest(dims) = {d} =>
                        EmptyFramesOf(responses[k].DataFrames, dims, d,
                                      {e \in DOMAIN dims \ {d} : Len(dims[e]) = 1})

\* C9: the frames are the empty frames of a dimension with the most values,
\* tagged besides with the first value of every other dimension that has a value
C9_EmptyFramesFirstValueTags ==
    (pc = "done" /\ err = << >>) =>
        \A k \in ZeroDataResponses :
            LET dims == queries[responses[k].Id].Dimensions
            IN  \E d \in Longest(dims) :
                    EmptyFramesOf(responses[k].DataFrames, dims, d,
                                  {e \in DOMAIN dims \ {d} : Len(dims[e]) >= 1})

\* no values, a dimension of three values and another of two
C9_Witness ==
    /\ pc = "done"
    /\ err = << >>
    /\ \E k \in ZeroDataResponses :
          LET dims == queries[responses[k].Id].Dimensions
          IN  /\ DOMAIN dims = {D1, D2}
              /\ Len(dims[D1]) = 3
              /\ Len(dims[D2]) = 2
              /\ Len(responses[k].DataFrames) = 3
              /\ responses[k].DataFrames[3].Tags = (D1 :> dims[D1][3]) @@ (D2 :> dims[D2][1])

\* the label each frame of the k-th response was made for, when that is known
\* from the responses: a frame for each label, or a single label
FrameLabels(k) ==
    LET id == responses[k].Id
    IN  IF NoFanOut(id) THEN SortStrings(LabelsOf(id))
        ELSE IF Cardinality(LabelsOf(id)) = 1
        THEN [i \in 1..Len(responses[k].DataFrames) |-> CHOOSE label \in LabelsOf(id) : TRUE]
        ELSE << >>

\* the name between the braces of a placeholder
TokenName(piece) == SelectSeq(piece.s, LAMBDA c : c \notin {"{{", "}}", " "})

\* what a placeholder name stands for, << >> when for nothing
ContextValue(query, label, tags, name) ==
    LET stat == IF isUserDefinedSearchExpression(query) THEN SearchStat ELSE query.Stats
        period == IF isUserDefinedSearchExpression(query) THEN SearchPeriod
                  ELSE <<Digits[query.Period + 1]>>
    IN  IF name \in DOMAIN tags THEN <<tags[name]>>
        ELSE IF name = <<"label">> THEN (IF label # << >> THEN <<label>> ELSE << >>)
        ELSE IF name = <<"region">> THEN <<query.Region>>
        ELSE IF name = <<"namespace">> THEN <<query.Namespace>>
        ELSE IF name = <<"metric">> THEN <<query.MetricName>>
        ELSE IF name = <<"stat">> THEN <<stat>>
        ELSE IF name = <<"period">> THEN <<period>>
        ELSE << >>

RECURSIVE Expanded(_, _, _, _)
Expanded(alias, query, label, tags) ==
    IF alias = << >> THEN << >>
    ELSE LET piece == Head(alias)
             value == ContextValue(query, label, tags, TokenName(piece))
         IN  (IF piece.m /\ value # << >> THEN value[1] ELSE piece.s)
             \o Expanded(Tail(alias), query, label, tags)

\* the name the precedence of C10 gives
NameByPrecedence(query, label, tags) ==
    LET noAlias == \A i \in 1..Len(query.Alias) : query.Alias[i].s = << >>
        stat == IF isUserDefinedSearchExpression(query) THEN SearchStat ELSE query.Stats
    IN  CASE noAlias /\ isMathExpression(query) -> query.Id
          [] noAlias /\ ~isMathExpression(query) /\ isInferredSearchExpression(query)
                /\ ~isMultiValuedDimensionExpression(query) -> label
          [] OTHER ->
                IF Expanded(query.Alias, query, label, tags) = << >>
                THEN query.MetricName \o <<"_">> \o stat
                ELSE Expanded(query.Alias, query, label, tags)

\* C10: every frame is named by the precedence: the id, the label, the alias
\* with its placeholders replaced, or metric_stat when that is empty
C10_AliasPrecedence ==
    (pc = "done" /\ err = << >>) =>
        \A k \in 1..Len(responses) :
            \A i \in 1..Len(FrameLabels(k)) :
                responses[k].DataFrames[i].Name =
                    NameByPrecedence(queries[responses[k].Id], FrameLabels(k)[i],
                                     responses[k].DataFrames[i].Tags)

\* no alias and no expression, a dimension of two values, and data: metric_stat
C10_Witness ==
    /\ pc = "done"
    /\ err = << >>
    /\ \E k \in 1..Len(responses) :
          LET query == queries[responses[k].Id]
          IN  /\ query.Alias = << >>
              /\ query.Expression = << >>
              /\ isMultiValuedDimensionExpression(query)
              /\ isInferredSearchExpression(query)
              /\ Len(FrameLabels(k)) = 1
              /\ FrameLabels(k)[1] # << >>
              /\ responses[k].DataFrames[1].Fields # << >>
              /\ responses[k].DataFrames[1].Name = query.MetricName \o <<"_">> \o query.Stats

\* what a result holds besides its id and label
Content(r) == <<r.Timestamps, r.Values, r.StatusCode>>

\* the fragments of the outputs that are not as the caller passed them
Rewritten ==
    {ref \in {<<b, i>> : b \in 1..Len(input), i \in 1..MaxResults} :
        /\ ref[2] <= Len(input[ref[1]].MetricDataResults)
        /\ Content(Deref(batches, ref)) # Content(Deref(input, ref))}

\* C11: when the call has returned, every fragment of every output the caller
\* passed has the timestamps, the values and the status code it had at the call
C11_InputFragmentsUntouched ==
    Returned => Rewritten = {}

\* s comes before t in the order of strings: at the first place where they
\* differ s has the smaller byte, or s ends there
Before(s, t) ==
    \E n \in 0..Len(s) :
        /\ n <= Len(t)
        /\ SubSeq(s, 1, n) = SubSeq(t, 1, n)
        /\ IF n = Len(s) THEN n < Len(t)
           ELSE n < Len(t) /\ SymRank(s[n + 1]) < SymRank(t[n + 1])

\* the i-th smallest label of a set
Smallest(labels, i) ==
    CHOOSE label \in labels : Cardinality({other \in labels : Before(other, label)}) = i - 1

\* C12: the response of a query none of whose labels takes the zero-data
\* branch has one frame for each merged label, and the i-th frame is the one
\* of the i-th smallest label: its name is the one that label gets and its
\* columns are that label's merged data
C12_FramesInLabelOrder ==
    (pc = "done" /\ err = << >>) =>
        \A k \in 1..Len(responses) :
            LET id == responses[k].Id
                frames == responses[k].DataFrames
            IN  NoFanOut(id) =>
                    /\ Len(frames) = Cardinality(LabelsOf(id))
                    /\ \A i \in 1..Len(frames) :
                          LET label == Smallest(LabelsOf(id), i)
                          IN  /\ frames[i].Name =
                                     NameByPrecedence(queries[id], label, frames[i].Tags)
                              /\ GapFilled(Merged(<<id, label>>).Timestamps,
                                           Merged(<<id, label>>).Values,
                                           queries[id].Period, frames[i].Fields)

\* three labels that arrive from the largest to the smallest, one of them a
\* prefix of another, each with its own data: the frames are named a, ab, b
C12_Witness ==
    /\ pc = "done"
    /\ err = << >>
    /\ Len(Fragments) = 3
    /\ Fragments[1].Label = <<"b">>
    /\ Fragments[2].Label = <<"a", "b">>
    /\ Fragments[3].Label = <<"a">>
    /\ \A j \in 1..3 : Fragments[j].Values # << >>
    /\ \E k \in 1..Len(responses) :
          /\ NoFanOut(responses[k].Id)
          /\ Len(responses[k].DataFrames) = 3
          /\ responses[k].DataFrames[1].Name = <<"a">>
          /\ responses[k].DataFrames[2].Name = <<"a", "b">>
          /\ responses[k].DataFrames[3].Name = <<"b">>
          /\ responses[k].DataFrames[1].Fields # responses[k].DataFrames[3].Fields

====
